---- MODULE Spec2Model ----
(***************************************************************************)
(* Model of the Logic Pro automation scripts of logic-automator:           *)
(*   - importMidiWithAbsolutePath (improved_midi_import.py), the UI        *)
(*     driven import session with its two polling loops;                   *)
(*   - createProjectFromTemplate (improved_midi_import.py,                 *)
(*     simple_dance_automator.py, dance_go_automator.py), the template     *)
(*     provisioning step.                                                  *)
(* The host application (its window list and the buttons of a window) is   *)
(* the environment: every query is answered nondeterministically.          *)
(***************************************************************************)
EXTENDS Integers, Sequences, FiniteSets, TLC

(* ---------------------------- bounds ----------------------------------- *)

\* longest midi_file argument tried, in characters
MaxPathLen == 2

\* longest window list the host returns to one logic.logic.windows() call
MaxWindows == 2

\* the counter of import-dialog queries saturates here (the loop itself is
\* not bounded by the code)
MaxDialogCount == 3

\* number of createProjectFromTemplate calls followed in one behaviour
MaxCalls == 3

(* ---------------------------- constants -------------------------------- *)

\* range(50) of the tempo-alert loop
TempoAttempts == 50

\* characters a path is made of
Chars == {"/", "a", "."}

\* os.getcwd()
Cwd == <<"/", "w">>

\* identities the host gives to window elements
Handles == {1, 2}

NoAttr == "<absent>"

\* windows the host can expose: an identity, the AXTitle attribute and the
\* AXDescription attribute (NoAttr: the element has no such attribute)
Titles == {"Import", "Tracks", NoAttr}
Descriptions == {"alert", NoAttr}
Windows == [id : Handles, AXTitle : Titles, AXDescription : Descriptions]

(* ---------------------------- paths ------------------------------------ *)

RECURSIVE SeqsUpTo(_, _)
SeqsUpTo(S, n) ==
    IF n = 0 THEN {<<>>}
    ELSE LET shorter == SeqsUpTo(S, n - 1)
         IN  shorter \cup {Append(s, c) : s \in {t \in shorter : Len(t) = n - 1}, c \in S}

\* the midi_file arguments tried
MidiFiles == SeqsUpTo(Chars, MaxPathLen)

\* posixpath.isabs
IsAbs(p) == Len(p) > 0 /\ p[1] = "/"

\* posixpath.join(a, b)
Join(a, b) ==
    IF IsAbs(b) THEN b
    ELSE IF Len(a) = 0 \/ a[Len(a)] = "/" THEN a \o b
    ELSE a \o <<"/">> \o b

\* str.split("/"): the components between the slashes, empty ones included
RECURSIVE Split(_)
Split(p) ==
    IF \A i \in 1..Len(p) : p[i] # "/" THEN <<p>>
    ELSE LET k == CHOOSE i \in 1..Len(p) : p[i] = "/" /\ \A j \in 1..(i - 1) : p[j] # "/"
         IN  <<SubSeq(p, 1, k - 1)>> \o Split(SubSeq(p, k + 1, Len(p)))

\* the loop of posixpath.normpath over the components
RECURSIVE NormComps(_, _, _)
NormComps(comps, acc, slashes) ==
    IF comps = <<>> THEN acc
    ELSE LET comp == Head(comps)
             rest == Tail(comps)
         IN  IF comp = <<>> \/ comp = <<".">> THEN NormComps(rest, acc, slashes)
             ELSE IF \/ comp # <<".", ".">>
                     \/ (slashes = 0 /\ acc = <<>>)
                     \/ (acc # <<>> /\ acc[Len(acc)] = <<".", ".">>)
                  THEN NormComps(rest, Append(acc, comp), slashes)
             ELSE IF acc # <<>> THEN NormComps(rest, SubSeq(acc, 1, Len(acc) - 1), slashes)
             ELSE NormComps(rest, acc, slashes)

\* "/".join(comps)
RECURSIVE JoinComps(_)
JoinComps(comps) ==
    IF comps = <<>> THEN <<>>
    ELSE IF Len(comps) = 1 THEN comps[1]
    ELSE comps[1] \o <<"/">> \o JoinComps(Tail(comps))

\* posixpath.normpath
NormPath(p) ==
    IF p = <<>> THEN <<".">>
    ELSE LET slashes == IF ~IsAbs(p) THEN 0
                        ELSE IF Len(p) >= 2 /\ p[2] = "/" /\ ~(Len(p) >= 3 /\ p[3] = "/") THEN 2
                        ELSE 1
             body == JoinComps(NormComps(Split(p), <<>>, slashes))
             path == [i \in 1..slashes |-> "/"] \o body
         IN  IF path = <<>> THEN <<".">> ELSE path

\* os.path.abspath
AbsPath(p) == NormPath(IF IsAbs(p) THEN p ELSE Join(Cwd, p))

(* ---------------------------- state ------------------------------------ *)

VARIABLES
    pc,             \* position in importMidiWithAbsolutePath
    midi_file,      \* the argument
    abs_path,       \* os.path.abspath(midi_file)
    existing,       \* absolute paths of the files that exist
    windows,        \* the local list `windows`
    import_window,  \* windows[0] of the dialog poll (0: not bound yet)
    alert,          \* windows[0] of the tempo poll (0: not bound yet)
    typed,          \* characters of abs_path sent so far
    attempt,        \* iterations of the tempo-alert for loop started
    candidate,      \* index of the fallback candidate being tried
    result,         \* what the call returned or raised
    log,            \* action primitives dispatched to the host, in order
    dialogQueries,  \* logic.logic.windows() calls of the dialog poll
    dialogTick,     \* parity of the dialog-loop iterations made once
                    \* dialogQueries has saturated
    alertQueries,   \* logic.logic.windows() calls of the tempo poll
    dialogMatch,    \* first non-empty filtered answer of the dialog poll
                    \* and the number of the query that gave it
    alertMatch,     \* the same for the tempo poll
    lookups         \* button lookups made, in order, with their outcome

importVars == <<pc, midi_file, abs_path, existing, windows, import_window, alert,
                typed, attempt, candidate, result, log, dialogQueries,
                dialogTick, alertQueries, dialogMatch, alertMatch, lookups>>

VARIABLES
    slept,          \* the time.sleep(0.1) of the current loop iteration is done
    dialogSleeps,   \* time.sleep(0.1) calls of the dialog poll (saturating
                    \* like dialogQueries)
    alertSleeps     \* time.sleep(0.1) calls of the tempo poll

sleepVars == <<slept, dialogSleeps, alertSleeps>>

VARIABLES
    outDir,         \* the output directory: "absent", "writable" or "readonly"
    templates,      \* template path -> the files of that template (or NoEntry)
    projects,       \* entry of the output directory -> its files (or NoEntry)
    lastCall,       \* the createProjectFromTemplate call that just ended
    before,         \* `projects` as that call found it
    okCalls         \* project name -> calls that returned a path so far

fsVars == <<outDir, templates, projects, lastCall, before, okCalls>>

VARIABLES
    script,           \* which script runs: improved, simple or dance_go
    argv,             \* the command line: len(sys.argv) and the arguments read
    cwd_writable,     \* os.access(os.getcwd(), os.W_OK)
    dpc,              \* position of main / createDanceProject
    exitCode,         \* exit code of the process, -1 while it runs
    dret,             \* what createDanceProject returned
    opens,            \* the project entries passed to logic.open, in order
    importMidiCalls   \* the paths passed to logic.importMidi, in order

danceVars == <<script, argv, cwd_writable, dpc, exitCode, dret, opens, importMidiCalls>>

vars == <<importVars, sleepVars, fsVars, danceVars>>

(* ---------------------------- file system ------------------------------ *)

\* files a project bundle can hold
Files == {"projectData", "Resources"}

\* a directory holding the given files
Dir(files) == [exists |-> TRUE, files |-> files]

\* a path at which nothing exists
NoEntry == [exists |-> FALSE, files |-> {}]

\* what can be found at a path
Trees == {NoEntry} \cup {Dir(fs) : fs \in SUBSET Files}

TemplatePaths == {"templates/dance_template.logicx", "bundle/dance_template.logicx"}

ProjectNames == {"dance & go", "house vibes"}

\* f"{project_name}.logicx"
EntryOf(name) == <<name, ".logicx">>

\* the entries of the output directory
Entries == {EntryOf(n) : n \in ProjectNames}

\* a finished call: which function, its arguments, what it returned or raised
Call(variant, template, name, res) ==
    [variant |-> variant, template |-> template, name |-> name, result |-> res]

NoCall == Call("", "", "", "none")

(* ----------------------------- command line ---------------------------- *)

Scripts == {"improved", "simple", "dance_go"}

\* os.path.expanduser("~/Desktop")
Desktop == <<"/", "d">>

\* dance_go_automator.py line 339: the default of the fourth argument
DefaultMidi == Join(Desktop, <<"t">>)

\* the MIDI arguments given on the command line: empty, relative, absolute
DanceMidi == {<<>>, <<"a">>, <<"/", "a">>}

\* sys.argv as main reads it: its length, the project name, the tempo text
\* and the MIDI path
Args(argc, name, tempo, midi) == [argc |-> argc, name |-> name, tempo |-> tempo, midi |-> midi]

NoArgs == Args(1, "", "", <<>>)

Argvs ==
    {NoArgs}
    \cup {Args(2, n, "", <<>>) : n \in ProjectNames}
    \cup {Args(3, n, t, <<>>) : n \in ProjectNames, t \in {"124", "fast"}}
    \cup {Args(5, n, "124", m) : n \in ProjectNames, m \in DanceMidi}

\* int(sys.argv[2]) returns
IsInt(t) == t = "124"

\* template_path of createDanceProject
TemplateOf(v) ==
    IF v = "dance_go" THEN "bundle/dance_template.logicx"
    ELSE "templates/dance_template.logicx"

\* dance_go_automator.py lines 32-45
get_project_root(w) == IF w THEN Cwd ELSE Desktop

\* the midi_file main passes to createDanceProject
MidiArg(v, a) ==
    IF a.argc > 4 THEN a.midi
    ELSE IF v = "dance_go" THEN DefaultMidi
    ELSE <<>>

\* the path whose existence createDanceProject tests before logic.importMidi
MidiTested(v, a, w) ==
    IF v = "dance_go" /\ ~IsAbs(MidiArg(v, a))
    THEN Join(get_project_root(w), MidiArg(v, a))
    ELSE MidiArg(v, a)

(* ---------------------------- host ------------------------------------- *)

\* what one logic.logic.windows() call can return: a list of windows with
\* pairwise different identities
HostWindowLists ==
    {ws \in SeqsUpTo(Windows, MaxWindows) :
        \A i, j \in 1..Len(ws) : i # j => ws[i].id # ws[j].id}

\* "AXTitle" in window.getAttributes() and window.AXTitle == "Import"
IsImportWindow(w) == w.AXTitle # NoAttr /\ w.AXTitle = "Import"

\* "AXDescription" in window.getAttributes() and window.AXDescription == "alert"
IsAlertWindow(w) == w.AXDescription # NoAttr /\ w.AXDescription = "alert"

\* the handles of the import windows of a window list, in the host's order
ImportWindowsOf(ws) ==
    LET m == SelectSeq(ws, IsImportWindow) IN [i \in 1..Len(m) |-> m[i].id]

\* the handles of the alert windows of a window list, in the host's order
AlertWindowsOf(ws) ==
    LET m == SelectSeq(ws, IsAlertWindow) IN [i \in 1..Len(m) |-> m[i].id]

\* os.path.exists of an absolute path: the root and the working directory
\* always exist
Exists(p) == p \in existing \cup {<<"/">>, Cwd}

(* ---------------------------- primitives ------------------------------- *)

\* one dispatched action primitive: the call, its argument and the handle
\* it is made on (0: the application itself)
Prim(op, arg, h) == [op |-> op, arg |-> arg, h |-> h]

SelectLastTrack == Prim("selectLastTrack", "", 0)
MenuPress == Prim("menuItem.Press", "File>Import>MIDI File", 0)
Activate == Prim("activate", "", 0)
RevealChord == Prim("sendGlobalKeyWithModifiers", "command+shift+g", 0)
SelectAllChord == Prim("sendGlobalKeyWithModifiers", "command+a", 0)
DeleteKey == Prim("sendGlobalKey", "backspace", 0)
SendKeys(c) == Prim("sendKeys", c, 0)
SubmitKey == SendKeys("\n")
Press(h, label) == Prim("Press", label, h)

\* the answer of the k-th query of a poll, kept when it is the first
\* non-empty one
Match(k, handles) == [k |-> k, handles |-> handles]
NoMatch == Match(0, <<>>)

\* one button lookup window.buttons(label) and whether it returned a button
Lookup(h, label, found) == [h |-> h, label |-> label, found |-> found]

\* the buttons tried on the tempo alert, in the order of the nested try blocks
FallbackCandidates == <<"Import Tempo", "OK">>

(* ---------------------------- loop conditions -------------------------- *)

\* while len(windows) == 0
DialogLoopContinues(ws) == Len(ws) = 0

\* the tempo loop with one iteration too many (range(51))
TempoPollNext_OffByOne(i, ws) ==
    IF Len(ws) > 0 \/ i > TempoAttempts THEN "tempo_check" ELSE "tempo_poll"

\* the tempo loop without its break
TempoPollNext_NoBreak(i, ws) ==
    IF i >= TempoAttempts THEN "tempo_check" ELSE "tempo_poll"

\* for _ in range(50): ... if len(windows) > 0: break
\* i is the number of iterations completed, ws the list of the last one
TempoPollNext(i, ws) ==
    IF Len(ws) > 0 \/ i >= TempoAttempts THEN "tempo_check" ELSE "tempo_poll"

\* the resolution entered without the test of the list
AfterTempoPoll_NoTest(ws) == "resolve"

\* if len(windows) > 0: (after the tempo poll)
AfterTempoPoll(ws) == IF Len(ws) > 0 THEN "resolve" ELSE "finish"

\* a query is made without waiting for the sleep of its iteration
QueryReady_NoSleep(sl) == TRUE

\* the query of an iteration comes after the time.sleep(0.1) of that iteration
QueryReady(sl) == sl

\* the character sent by iteration k of `for char in abs_path`
CharOf(path, k) == path[k]

Min(a, b) == IF a < b THEN a ELSE b

(* ---------------------------- import session --------------------------- *)

\* no step of an import session taken yet, with the files `ex` on disk
ImportFresh(mf, ex) ==
    /\ midi_file = mf
    /\ existing = ex
    /\ abs_path = <<>>
    /\ windows = <<>>
    /\ import_window = 0
    /\ alert = 0
    /\ typed = 0
    /\ attempt = 0
    /\ candidate = 0
    /\ result = "none"
    /\ log = <<>>
    /\ dialogQueries = 0
    /\ dialogTick = 0
    /\ alertQueries = 0
    /\ dialogMatch = NoMatch
    /\ alertMatch = NoMatch
    /\ lookups = <<>>
    /\ slept = FALSE
    /\ dialogSleeps = 0
    /\ alertSleeps = 0

\* the call importMidiWithAbsolutePath(mf) about to start, with the files `ex`
ImportCalled(mf, ex) ==
    /\ pc = "start"
    /\ ImportFresh(mf, ex)

\* the command-line entry point is not running
NoDance ==
    /\ script = "improved"
    /\ argv = NoArgs
    /\ cwd_writable = TRUE
    /\ dpc = "off"
    /\ exitCode = -1
    /\ dret = "none"
    /\ opens = <<>>
    /\ importMidiCalls = <<>>

\* no provisioning call made, an empty output directory
NoProvisioning ==
    /\ outDir = "writable"
    /\ templates = [t \in TemplatePaths |-> Dir(Files)]
    /\ projects = [e \in Entries |-> NoEntry]
    /\ lastCall = NoCall
    /\ before = projects
    /\ okCalls = [n \in ProjectNames |-> 0]

Init ==
    /\ \E mf \in MidiFiles : \E ex \in {{}, {AbsPath(mf)}} : ImportCalled(mf, ex)
    /\ NoProvisioning
    /\ NoDance

\* the session started without the os.path.exists test of lines 43-45
Start_NoExistsTest ==
    /\ UNCHANGED <<fsVars, sleepVars, danceVars>>
    /\ pc = "start"
    /\ abs_path' = AbsPath(midi_file)
    /\ log' = log \o <<SelectLastTrack, MenuPress>>
    /\ windows' = <<>>
    /\ pc' = "dialog_poll"
    /\ UNCHANGED <<midi_file, existing, import_window, alert, typed, attempt,
                   candidate, result, dialogQueries, dialogTick, alertQueries,
                   dialogMatch, alertMatch, lookups>>

\* lines 39-52: resolve the path, give up if the file is missing, otherwise
\* select the last track and press File > Import > MIDI File
Start ==
    /\ UNCHANGED <<fsVars, sleepVars, danceVars>>
    /\ pc = "start"
    /\ abs_path' = AbsPath(midi_file)
    /\ IF ~Exists(abs_path')
       THEN /\ result' = "False"
            /\ pc' = "returned"
            /\ UNCHANGED <<log, windows>>
       ELSE /\ log' = log \o <<SelectLastTrack, MenuPress>>
            /\ windows' = <<>>
            /\ pc' = "dialog_poll"
            /\ UNCHANGED result
    /\ UNCHANGED <<midi_file, existing, import_window, alert, typed, attempt,
                   candidate, dialogQueries, dialogTick, alertQueries, dialogMatch,
                   alertMatch, lookups>>

\* line 54: the time.sleep(0.1) that opens every iteration of the dialog loop
DialogSleep ==
    /\ UNCHANGED <<fsVars, danceVars, importVars, alertSleeps>>
    /\ pc = "dialog_poll"
    /\ ~slept
    /\ slept' = TRUE
    /\ dialogSleeps' = Min(dialogSleeps + 1, MaxDialogCount)

\* lines 55-60: the query of one iteration of the import-dialog loop, and the binding of
\* import_window when the loop ends
DialogQuery ==
    /\ UNCHANGED <<fsVars, danceVars, dialogSleeps, alertSleeps>>
    /\ QueryReady(slept)
    /\ slept' = FALSE
    /\ pc = "dialog_poll"
    /\ \E ws \in HostWindowLists :
        /\ windows' = ImportWindowsOf(ws)
        /\ dialogQueries' = Min(dialogQueries + 1, MaxDialogCount)
        /\ dialogMatch' = IF dialogMatch = NoMatch /\ windows' # <<>>
                          THEN Match(dialogQueries', windows')
                          ELSE dialogMatch
        /\ IF DialogLoopContinues(windows')
           THEN /\ dialogTick' = IF dialogQueries = MaxDialogCount
                                 THEN 1 - dialogTick ELSE dialogTick
                /\ UNCHANGED <<pc, import_window>>
           ELSE /\ import_window' = windows'[1]
                /\ dialogTick' = 0
                /\ pc' = "reveal"
    /\ UNCHANGED <<midi_file, abs_path, existing, alert, typed, attempt,
                   candidate, result, log, alertQueries, alertMatch, lookups>>

\* the reveal chord sent without bringing the host forward first
Reveal_NoActivate ==
    /\ UNCHANGED <<fsVars, sleepVars, danceVars>>
    /\ pc = "reveal"
    /\ log' = Append(log, RevealChord)
    /\ pc' = "clear"
    /\ UNCHANGED <<midi_file, abs_path, existing, windows, import_window, alert,
                   typed, attempt, candidate, result, dialogQueries, dialogTick,
                   alertQueries, dialogMatch, alertMatch, lookups>>

\* lines 63-65: bring the host forward and open the path entry
Reveal ==
    /\ UNCHANGED <<fsVars, sleepVars, danceVars>>
    /\ pc = "reveal"
    /\ log' = log \o <<Activate, RevealChord>>
    /\ pc' = "clear"
    /\ UNCHANGED <<midi_file, abs_path, existing, windows, import_window, alert,
                   typed, attempt, candidate, result, dialogQueries, dialogTick,
                   alertQueries, dialogMatch, alertMatch, lookups>>

\* the two clear keys in the wrong order: delete, then select all
Clear_Swapped ==
    /\ UNCHANGED <<fsVars, sleepVars, danceVars>>
    /\ pc = "clear"
    /\ log' = log \o <<DeleteKey, SelectAllChord>>
    /\ typed' = 0
    /\ pc' = "type"
    /\ UNCHANGED <<midi_file, abs_path, existing, windows, import_window, alert,
                   attempt, candidate, result, dialogQueries, dialogTick, alertQueries,
                   dialogMatch, alertMatch, lookups>>

\* lines 71-72: select all, delete
Clear ==
    /\ UNCHANGED <<fsVars, sleepVars, danceVars>>
    /\ pc = "clear"
    /\ log' = log \o <<SelectAllChord, DeleteKey>>
    /\ typed' = 0
    /\ pc' = "type"
    /\ UNCHANGED <<midi_file, abs_path, existing, windows, import_window, alert,
                   attempt, candidate, result, dialogQueries, dialogTick, alertQueries,
                   dialogMatch, alertMatch, lookups>>

\* the path sent by a single sendKeys(abs_path) call
TypeChar_WholePath ==
    /\ UNCHANGED <<fsVars, sleepVars, danceVars>>
    /\ pc = "type"
    /\ typed < Len(abs_path)
    /\ log' = Append(log, SendKeys("abs_path"))
    /\ typed' = Len(abs_path)
    /\ UNCHANGED <<pc, midi_file, abs_path, existing, windows, import_window,
                   alert, attempt, candidate, result, dialogQueries, dialogTick,
                   alertQueries, dialogMatch, alertMatch, lookups>>

\* lines 75-77: one iteration of `for char in abs_path`
TypeChar ==
    /\ UNCHANGED <<fsVars, sleepVars, danceVars>>
    /\ pc = "type"
    /\ typed < Len(abs_path)
    /\ log' = Append(log, SendKeys(CharOf(abs_path, typed + 1)))
    /\ typed' = typed + 1
    /\ UNCHANGED <<pc, midi_file, abs_path, existing, windows, import_window,
                   alert, attempt, candidate, result, dialogQueries, dialogTick,
                   alertQueries, dialogMatch, alertMatch, lookups>>

\* lines 79-81: the loop is over, send the newline
Submit ==
    /\ UNCHANGED <<fsVars, sleepVars, danceVars>>
    /\ pc = "type"
    /\ typed = Len(abs_path)
    /\ log' = Append(log, SubmitKey)
    /\ pc' = "confirm"
    /\ UNCHANGED <<midi_file, abs_path, existing, windows, import_window, alert,
                   typed, attempt, candidate, result, dialogQueries, dialogTick,
                   alertQueries, dialogMatch, alertMatch, lookups>>

\* a missing confirm button makes the function redo the path injection
Confirm_Retry ==
    /\ UNCHANGED <<fsVars, sleepVars, danceVars>>
    /\ pc = "confirm"
    /\ \E found \in BOOLEAN :
        /\ lookups' = Append(lookups, Lookup(import_window, "Import", found))
        /\ IF found
           THEN /\ log' = Append(log, Press(import_window, "Import"))
                /\ windows' = <<>>
                /\ pc' = "tempo_poll"
           ELSE /\ pc' = "reveal"
                /\ UNCHANGED <<log, windows>>
    /\ UNCHANGED <<midi_file, abs_path, existing, import_window, alert, typed, result,
                   attempt, candidate, dialogQueries, dialogTick, alertQueries,
                   dialogMatch, alertMatch>>

\* the confirm press wrapped in a try/except that swallows the IndexError
Confirm_Swallow ==
    /\ UNCHANGED <<fsVars, sleepVars, danceVars>>
    /\ pc = "confirm"
    /\ \E found \in BOOLEAN :
        /\ lookups' = Append(lookups, Lookup(import_window, "Import", found))
        /\ log' = IF found THEN Append(log, Press(import_window, "Import")) ELSE log
        /\ windows' = <<>>
        /\ pc' = "tempo_poll"
        /\ UNCHANGED result
    /\ UNCHANGED <<midi_file, abs_path, existing, import_window, alert, typed,
                   attempt, candidate, dialogQueries, dialogTick, alertQueries,
                   dialogMatch, alertMatch>>

\* lines 84-87: import_window.buttons("Import")[0].Press(); an empty button
\* list raises IndexError out of the function
Confirm ==
    /\ UNCHANGED <<fsVars, sleepVars, danceVars>>
    /\ pc = "confirm"
    /\ \E found \in BOOLEAN :
        /\ lookups' = Append(lookups, Lookup(import_window, "Import", found))
        /\ IF found
           THEN /\ log' = Append(log, Press(import_window, "Import"))
                /\ windows' = <<>>
                /\ pc' = "tempo_poll"
                /\ UNCHANGED result
           ELSE /\ result' = "IndexError"
                /\ pc' = "raised"
                /\ UNCHANGED <<log, windows>>
    /\ UNCHANGED <<midi_file, abs_path, existing, import_window, alert, typed,
                   attempt, candidate, dialogQueries, dialogTick, alertQueries, dialogMatch,
                   alertMatch>>

\* line 89: the time.sleep(0.1) that opens every iteration of the tempo loop
TempoSleep ==
    /\ UNCHANGED <<fsVars, danceVars, importVars, dialogSleeps>>
    /\ pc = "tempo_poll"
    /\ ~slept
    /\ slept' = TRUE
    /\ alertSleeps' = alertSleeps + 1

\* lines 88-97: the query of one iteration of the tempo-alert loop and the
\* test that ends it
TempoQuery ==
    /\ UNCHANGED <<fsVars, danceVars, dialogSleeps, alertSleeps>>
    /\ QueryReady(slept)
    /\ slept' = FALSE
    /\ pc = "tempo_poll"
    /\ attempt' = attempt + 1
    /\ \E ws \in HostWindowLists :
        /\ windows' = AlertWindowsOf(ws)
        /\ alertQueries' = alertQueries + 1
        /\ alertMatch' = IF alertMatch = NoMatch /\ windows' # <<>>
                         THEN Match(alertQueries', windows')
                         ELSE alertMatch
        /\ pc' = TempoPollNext(attempt', windows')
    /\ UNCHANGED <<midi_file, abs_path, existing, import_window, alert, typed,
                   candidate, result, log, dialogQueries, dialogTick, dialogMatch, lookups>>

\* the tempo poll started again when it found no alert
TempoCheck_Repoll ==
    /\ UNCHANGED <<fsVars, sleepVars, danceVars>>
    /\ pc = "tempo_check"
    /\ IF Len(windows) > 0
       THEN /\ pc' = "resolve"
            /\ alert' = windows[1]
            /\ candidate' = 1
            /\ UNCHANGED attempt
       ELSE /\ pc' = "tempo_poll"
            /\ attempt' = 0
            /\ UNCHANGED <<alert, candidate>>
    /\ UNCHANGED <<midi_file, abs_path, existing, windows, import_window, typed,
                   result, log, dialogQueries, dialogTick, alertQueries,
                   dialogMatch, alertMatch, lookups>>

\* lines 99-101: an alert was found or not
TempoCheck ==
    /\ UNCHANGED <<fsVars, sleepVars, danceVars>>
    /\ pc = "tempo_check"
    /\ pc' = AfterTempoPoll(windows)
    /\ IF pc' = "resolve"
       THEN /\ alert' = IF Len(windows) > 0 THEN windows[1] ELSE 0
            /\ candidate' = 1
       ELSE UNCHANGED <<alert, candidate>>
    /\ UNCHANGED <<midi_file, abs_path, existing, windows, import_window, typed,
                   attempt, result, log, dialogQueries, dialogTick, alertQueries,
                   dialogMatch, alertMatch, lookups>>

\* the resolution that does not stop at the first button found: after a
\* press it goes on to the next candidate
Resolve_NoStop ==
    /\ UNCHANGED <<fsVars, sleepVars, danceVars>>
    /\ pc = "resolve"
    /\ \E found \in BOOLEAN :
        /\ lookups' = Append(lookups, Lookup(alert, FallbackCandidates[candidate], found))
        /\ log' = IF found THEN Append(log, Press(alert, FallbackCandidates[candidate])) ELSE log
        /\ IF candidate < Len(FallbackCandidates)
           THEN /\ candidate' = candidate + 1
                /\ UNCHANGED pc
           ELSE /\ pc' = "finish"
                /\ UNCHANGED candidate
    /\ UNCHANGED <<midi_file, abs_path, existing, windows, import_window, alert,
                   typed, attempt, result, dialogQueries, dialogTick, alertQueries,
                   dialogMatch, alertMatch>>

\* the resolution made on the handle kept from the dialog poll
Resolve_StaleHandle ==
    /\ UNCHANGED <<fsVars, sleepVars, danceVars>>
    /\ pc = "resolve"
    /\ \E found \in BOOLEAN :
        /\ lookups' = Append(lookups, Lookup(import_window, FallbackCandidates[candidate], found))
        /\ IF found
           THEN /\ log' = Append(log, Press(import_window, FallbackCandidates[candidate]))
                /\ pc' = "finish"
                /\ UNCHANGED candidate
           ELSE /\ UNCHANGED log
                /\ IF candidate < Len(FallbackCandidates)
                   THEN /\ candidate' = candidate + 1
                        /\ UNCHANGED pc
                   ELSE /\ pc' = "finish"
                        /\ UNCHANGED candidate
    /\ UNCHANGED <<midi_file, abs_path, existing, windows, import_window, alert,
                   typed, attempt, result, dialogQueries, dialogTick, alertQueries,
                   dialogMatch, alertMatch>>

\* the fallback button located but not pressed (alert.buttons("OK")[0])
Resolve_FallbackNotPressed ==
    /\ UNCHANGED <<fsVars, sleepVars, danceVars>>
    /\ pc = "resolve"
    /\ \E found \in BOOLEAN :
        /\ lookups' = Append(lookups, Lookup(alert, FallbackCandidates[candidate], found))
        /\ IF found
           THEN /\ log' = IF candidate = 1
                          THEN Append(log, Press(alert, FallbackCandidates[candidate]))
                          ELSE log
                /\ pc' = "finish"
                /\ UNCHANGED candidate
           ELSE /\ UNCHANGED log
                /\ IF candidate < Len(FallbackCandidates)
                   THEN /\ candidate' = candidate + 1
                        /\ UNCHANGED pc
                   ELSE /\ pc' = "finish"
                        /\ UNCHANGED candidate
    /\ UNCHANGED <<midi_file, abs_path, existing, windows, import_window, alert,
                   typed, attempt, result, dialogQueries, dialogTick, alertQueries,
                   dialogMatch, alertMatch>>

\* lines 102-109: alert.buttons(label)[0].Press() for the current candidate;
\* the bare except moves on to the next one, and past the last one the
\* function carries on
Resolve ==
    /\ UNCHANGED <<fsVars, sleepVars, danceVars>>
    /\ pc = "resolve"
    /\ \E found \in BOOLEAN :
        /\ lookups' = Append(lookups, Lookup(alert, FallbackCandidates[candidate], found))
        /\ IF found
           THEN /\ log' = Append(log, Press(alert, FallbackCandidates[candidate]))
                /\ pc' = "finish"
                /\ UNCHANGED candidate
           ELSE /\ UNCHANGED log
                /\ IF candidate < Len(FallbackCandidates)
                   THEN /\ candidate' = candidate + 1
                        /\ UNCHANGED pc
                   ELSE /\ pc' = "finish"
                        /\ UNCHANGED candidate
    /\ UNCHANGED <<midi_file, abs_path, existing, windows, import_window, alert,
                   typed, attempt, result, dialogQueries, dialogTick, alertQueries,
                   dialogMatch, alertMatch>>

\* lines 111-112: print "MIDI file imported successfully", return True
Finish ==
    /\ UNCHANGED <<fsVars, sleepVars, danceVars>>
    /\ pc = "finish"
    /\ result' = "True"
    /\ pc' = "returned"
    /\ UNCHANGED <<midi_file, abs_path, existing, windows, import_window, alert,
                   typed, attempt, candidate, log, dialogQueries, dialogTick, alertQueries,
                   dialogMatch, alertMatch, lookups>>

Next ==
    \/ Start
    \/ DialogSleep
    \/ DialogQuery
    \/ Reveal
    \/ Clear
    \/ TypeChar
    \/ Submit
    \/ Confirm
    \/ TempoSleep
    \/ TempoQuery
    \/ TempoCheck
    \/ Resolve
    \/ Finish

Spec == Init /\ [][Next]_vars

\* the interpreter runs the function to its end: a step that can be taken is
\* taken
FairSpec == Init /\ [][Next]_vars /\ WF_vars(Next)

TypeOK ==
    /\ pc \in {"idle", "start", "dialog_poll", "reveal", "clear", "type", "confirm",
               "tempo_poll", "tempo_check", "resolve", "finish", "returned", "raised"}
    /\ result \in {"none", "True", "False", "IndexError"}
    /\ attempt \in 0..TempoAttempts
    /\ typed \in 0..Len(abs_path)
    /\ dialogQueries \in 0..MaxDialogCount
    /\ dialogTick \in {0, 1}

(* ---------------------------- provisioning ---------------------------- *)

ProvInit ==
    /\ ImportCalled(<<>>, {})
    /\ NoDance
    /\ outDir \in {"absent", "writable", "readonly"}
    /\ templates \in [TemplatePaths -> Trees]
    /\ projects \in [Entries -> Trees]
    /\ outDir = "absent" => \A e \in Entries : projects[e] = NoEntry
    /\ lastCall = NoCall
    /\ before = projects
    /\ okCalls = [n \in ProjectNames |-> 0]

\* os.makedirs(output_dir, exist_ok=True)
MakeDirs(dir) == IF dir = "absent" THEN "writable" ELSE dir

\* createProjectFromTemplate without the removal of an existing destination:
\* the template is copied over what is there
createProjectFromTemplate_Merge ==
    /\ UNCHANGED <<importVars, sleepVars, danceVars, templates>>
    /\ \E template \in TemplatePaths, name \in ProjectNames :
        LET dest == EntryOf(name)
            dir == MakeDirs(outDir)
        IN  /\ okCalls[name] < MaxCalls
            /\ before' = projects
            /\ outDir' = dir
            /\ IF ~templates[template].exists
               THEN /\ UNCHANGED <<projects, okCalls>>
                    /\ lastCall' = Call("improved", template, name, "FileNotFoundError")
               ELSE IF dir = "readonly"
               THEN /\ UNCHANGED <<projects, okCalls>>
                    /\ lastCall' = Call("improved", template, name, "PermissionError")
               ELSE /\ projects' = [projects EXCEPT ![dest] =
                                       Dir(projects[dest].files \cup templates[template].files)]
                    /\ okCalls' = [okCalls EXCEPT ![name] = @ + 1]
                    /\ lastCall' = Call("improved", template, name, "path")

\* improved_midi_import.py and simple_dance_automator.py, lines 14-31:
\* makedirs, rmtree of an existing destination, copytree, return the path;
\* an exception of rmtree or copytree leaves the function
ProvisionFrom(template, name) ==
        LET dest == EntryOf(name)
            dir == MakeDirs(outDir)
        IN  /\ before' = projects
            /\ outDir' = dir
            /\ IF projects[dest].exists /\ dir = "readonly"
               THEN \* rmtree empties what it can, then cannot remove the entry
                    /\ \E rest \in SUBSET projects[dest].files :
                          projects' = [projects EXCEPT ![dest] = Dir(rest)]
                    /\ lastCall' = Call("improved", template, name, "PermissionError")
                    /\ UNCHANGED okCalls
               ELSE IF ~templates[template].exists
               THEN /\ projects' = [projects EXCEPT ![dest] = NoEntry]
                    /\ lastCall' = Call("improved", template, name, "FileNotFoundError")
                    /\ UNCHANGED okCalls
               ELSE IF dir = "readonly"
               THEN /\ UNCHANGED <<projects, okCalls>>
                    /\ lastCall' = Call("improved", template, name, "PermissionError")
               ELSE /\ projects' = [projects EXCEPT ![dest] = Dir(templates[template].files)]
                    /\ okCalls' = [okCalls EXCEPT ![name] = @ + 1]
                    /\ lastCall' = Call("improved", template, name, "path")

\* a call of createProjectFromTemplate with any template and project name
createProjectFromTemplate ==
    /\ UNCHANGED <<importVars, sleepVars, danceVars, templates>>
    /\ \E template \in TemplatePaths, name \in ProjectNames :
        /\ okCalls[name] < MaxCalls
        /\ ProvisionFrom(template, name)

\* dance_go_automator.py, lines 48-83: the template and the writability of
\* the output directory are tested first, and every failure returns None
ProvisionFrom_dance_go(template, name) ==
        LET dest == EntryOf(name)
            dir == MakeDirs(outDir)
        IN  /\ before' = projects
            /\ IF ~templates[template].exists
               THEN /\ UNCHANGED <<outDir, projects, okCalls>>
                    /\ lastCall' = Call("dance_go", template, name, "None")
               ELSE IF dir = "readonly"
               THEN /\ outDir' = dir
                    /\ UNCHANGED <<projects, okCalls>>
                    /\ lastCall' = Call("dance_go", template, name, "None")
               ELSE /\ outDir' = dir
                    /\ projects' = [projects EXCEPT ![dest] = Dir(templates[template].files)]
                    /\ okCalls' = [okCalls EXCEPT ![name] = @ + 1]
                    /\ lastCall' = Call("dance_go", template, name, "path")

\* a call of dance_go_automator's createProjectFromTemplate
createProjectFromTemplate_dance_go ==
    /\ UNCHANGED <<importVars, sleepVars, danceVars, templates>>
    /\ \E template \in TemplatePaths, name \in ProjectNames :
        /\ okCalls[name] < MaxCalls
        /\ ProvisionFrom_dance_go(template, name)

\* between two calls something else writes a file into a project bundle
AddStray ==
    /\ UNCHANGED <<importVars, sleepVars, danceVars, templates, outDir, okCalls>>
    /\ \E e \in Entries, f \in Files :
        /\ projects[e].exists
        /\ f \notin projects[e].files
        /\ projects' = [projects EXCEPT ![e] = Dir(@.files \cup {f})]
        /\ before' = projects'
        /\ lastCall' = NoCall

ProvNext ==
    \/ createProjectFromTemplate
    \/ createProjectFromTemplate_dance_go
    \/ AddStray

ProvSpec == ProvInit /\ [][ProvNext]_vars

(* ------------------------ command-line entry point --------------------- *)

\* the paths whose presence on disk decides what the run does with the MIDI
\* argument
MidiCandidates(v, a, w) == {AbsPath(MidiArg(v, a)), AbsPath(MidiTested(v, a, w))}

DanceInit ==
    /\ script \in Scripts
    /\ argv \in Argvs
    /\ cwd_writable \in BOOLEAN
    /\ script # "dance_go" => cwd_writable
    /\ pc = "idle"
    /\ \E ex \in {{}} \cup {{p} : p \in MidiCandidates(script, argv, cwd_writable)} :
          ImportFresh(<<>>, ex)
    /\ outDir \in {"absent", "writable", "readonly"}
    /\ templates \in {[t \in TemplatePaths |-> Dir(Files)], [t \in TemplatePaths |-> NoEntry]}
    /\ projects \in {[e \in Entries |-> NoEntry], [e \in Entries |-> Dir({"Resources"})]}
    /\ outDir = "absent" => \A e \in Entries : projects[e] = NoEntry
    /\ lastCall = NoCall
    /\ before = projects
    /\ okCalls = [n \in ProjectNames |-> 0]
    /\ dpc = "main"
    /\ exitCode = -1
    /\ dret = "none"
    /\ opens = <<>>
    /\ importMidiCalls = <<>>

\* main up to the call of createDanceProject: sys.exit(1) without a project
\* name, a ValueError of int() leaves the process with exit code 1
main ==
    /\ UNCHANGED <<importVars, sleepVars, fsVars>>
    /\ dpc = "main"
    /\ IF argv.argc < 2 \/ (argv.argc > 2 /\ ~IsInt(argv.tempo))
       THEN /\ exitCode' = 1
            /\ dpc' = "exited"
       ELSE /\ dpc' = "template"
            /\ UNCHANGED exitCode
    /\ UNCHANGED <<script, argv, cwd_writable, dret, opens, importMidiCalls>>

\* createDanceProject, the template test: return False when it is missing
createDanceProject_template ==
    /\ UNCHANGED <<importVars, sleepVars, fsVars>>
    /\ dpc = "template"
    /\ IF ~templates[TemplateOf(script)].exists
       THEN /\ dret' = "False"
            /\ dpc' = "returned"
       ELSE /\ dpc' = "provision"
            /\ UNCHANGED dret
    /\ UNCHANGED <<script, argv, cwd_writable, exitCode, opens, importMidiCalls>>

\* createDanceProject without the "project_path is None" test of
\* dance_go_automator: the None goes on to logic.open
createDanceProject_provision_NoNoneTest ==
    /\ UNCHANGED <<importVars, sleepVars, templates>>
    /\ dpc = "provision"
    /\ IF script = "dance_go"
       THEN ProvisionFrom_dance_go(TemplateOf(script), argv.name)
       ELSE ProvisionFrom(TemplateOf(script), argv.name)
    /\ dpc' = IF lastCall'.result \in {"path", "None"} THEN "open" ELSE "raised"
    /\ UNCHANGED <<script, argv, cwd_writable, exitCode, dret, opens, importMidiCalls>>

\* createDanceProject, the call of createProjectFromTemplate: an exception
\* propagates; dance_go_automator returns None when it got None
createDanceProject_provision ==
    /\ UNCHANGED <<importVars, sleepVars, templates>>
    /\ dpc = "provision"
    /\ IF script = "dance_go"
       THEN ProvisionFrom_dance_go(TemplateOf(script), argv.name)
       ELSE ProvisionFrom(TemplateOf(script), argv.name)
    /\ dpc' = CASE lastCall'.result = "path" -> "open"
                 [] lastCall'.result = "None" -> "returned"
                 [] OTHER -> "raised"
    /\ dret' = IF lastCall'.result = "None" THEN "None" ELSE dret
    /\ UNCHANGED <<script, argv, cwd_writable, exitCode, opens, importMidiCalls>>

\* createDanceProject: logic.open(project_path)
createDanceProject_open ==
    /\ UNCHANGED <<importVars, sleepVars, fsVars>>
    /\ dpc = "open"
    /\ opens' = Append(opens, EntryOf(argv.name))
    /\ dpc' = "midi"
    /\ UNCHANGED <<script, argv, cwd_writable, exitCode, dret, importMidiCalls>>

\* createDanceProject, "Import MIDI if provided": improved_midi_import calls
\* importMidiWithAbsolutePath for any non-empty argument; the two other
\* scripts call logic.importMidi when the path they test exists
createDanceProject_midi ==
    /\ UNCHANGED <<sleepVars, fsVars>>
    /\ dpc = "midi"
    /\ LET mf == MidiArg(script, argv)
           tested == MidiTested(script, argv, cwd_writable)
       IN  IF script = "improved" /\ mf # <<>>
           THEN /\ pc' = "start"
                /\ midi_file' = mf
                /\ dpc' = "importing"
                /\ UNCHANGED importMidiCalls
           ELSE /\ importMidiCalls' =
                      IF script # "improved" /\ mf # <<>> /\ Exists(AbsPath(tested))
                      THEN Append(importMidiCalls, tested)
                      ELSE importMidiCalls
                /\ dpc' = "report"
                /\ UNCHANGED <<pc, midi_file>>
    /\ UNCHANGED <<abs_path, existing, windows, import_window, alert, typed, attempt,
                   candidate, result, log, dialogQueries, dialogTick, alertQueries,
                   dialogMatch, alertMatch, lookups>>
    /\ UNCHANGED <<script, argv, cwd_writable, exitCode, dret, opens>>

\* importMidiWithAbsolutePath has ended and its failure is rolled back: the
\* project is removed and createDanceProject returns False
createDanceProject_imported_Rollback ==
    /\ UNCHANGED <<importVars, sleepVars>>
    /\ dpc = "importing"
    /\ pc \in {"returned", "raised"}
    /\ IF pc = "returned" /\ result = "True"
       THEN /\ dpc' = "report"
            /\ UNCHANGED <<fsVars, dret>>
       ELSE /\ projects' = [projects EXCEPT ![EntryOf(argv.name)] = NoEntry]
            /\ dret' = "False"
            /\ dpc' = "returned"
            /\ UNCHANGED <<outDir, templates, lastCall, before, okCalls>>
    /\ UNCHANGED <<script, argv, cwd_writable, exitCode, opens, importMidiCalls>>

\* improved_midi_import.py lines 139-142: importMidiWithAbsolutePath has
\* ended; True and False are only reported, an IndexError propagates
createDanceProject_imported ==
    /\ UNCHANGED <<importVars, sleepVars, fsVars>>
    /\ dpc = "importing"
    /\ pc \in {"returned", "raised"}
    /\ dpc' = IF pc = "raised" THEN "raised" ELSE "report"
    /\ UNCHANGED <<script, argv, cwd_writable, exitCode, dret, opens, importMidiCalls>>

\* createDanceProject, the closing report and return project_path
createDanceProject_return ==
    /\ UNCHANGED <<importVars, sleepVars, fsVars>>
    /\ dpc = "report"
    /\ dret' = "path"
    /\ dpc' = "returned"
    /\ UNCHANGED <<script, argv, cwd_writable, exitCode, opens, importMidiCalls>>

\* main after createDanceProject: its return value is dropped and the
\* process ends with 0; an exception that reached main ends it with 1
main_exit ==
    /\ UNCHANGED <<importVars, sleepVars, fsVars>>
    /\ dpc \in {"returned", "raised"}
    /\ exitCode' = IF dpc = "raised" THEN 1 ELSE 0
    /\ dpc' = "exited"
    /\ UNCHANGED <<script, argv, cwd_writable, dret, opens, importMidiCalls>>

DanceNext ==
    \/ main
    \/ createDanceProject_template
    \/ createDanceProject_provision
    \/ createDanceProject_open
    \/ createDanceProject_midi
    \/ createDanceProject_imported
    \/ createDanceProject_return
    \/ main_exit
    \/ Next

DanceSpec == DanceInit /\ [][DanceNext]_vars

(* ---------------------------- observations ---------------------------- *)

\* the call is over: it returned or an exception left it
Terminal == pc \in {"returned", "raised"}

\* positions of the Press primitives in the log whose button label is in L
PressesOf(L) == {i \in 1..Len(log) : log[i].op = "Press" /\ log[i].arg \in L}

\* positions of the lookups of a label in L
LookupsOf(L) == {i \in 1..Len(lookups) : lookups[i].label \in L}

CandidateLabels == {FallbackCandidates[i] : i \in 1..Len(FallbackCandidates)}

\* the tempo-alert loop has been left
TempoPollOver ==
    \/ pc \in {"tempo_check", "resolve", "finish"}
    \/ (pc = "returned" /\ result = "True")

\* a key was sent to the path entry
KeySent == \E i \in 1..Len(log) : log[i].op \in {"sendKeys", "sendGlobalKey", "sendGlobalKeyWithModifiers"}

(* ---------------------------- claims ----------------------------------- *)

\* C1: every poll of the import session terminates: whatever the host does,
\* each polling loop stops after a bounded number of queries and the session
\* eventually reaches a terminal outcome.
C1_SessionTerminates == <>Terminal

\* C2: when the import dialog never appears, the session reports
\* Failed(DialogNotFound), and no path key is sent, no confirm button is
\* pressed and the tempo poll is not started: from the dialog poll the session
\* gets either to a match or to that failure.
C2_DialogNotFoundReported ==
    (pc = "dialog_poll") ~>
        \/ dialogMatch # NoMatch
        \/ /\ result = "DialogNotFound"
           /\ ~KeySent
           /\ PressesOf({"Import"}) = {}
           /\ alertQueries = 0

\* C3: a tempo-alert poll whose query never matches makes exactly
\* TempoAttempts (50) window-list queries and ends with the empty list; no
\* poll of that loop ever makes more queries than that.
C3_TempoPollExactlyN ==
    /\ alertQueries <= TempoAttempts
    /\ (TempoPollOver /\ alertMatch = NoMatch) =>
          (alertQueries = TempoAttempts /\ windows = <<>>)

C3_Witness ==
    /\ pc = "tempo_check"
    /\ alertMatch = NoMatch
    /\ alertQueries = TempoAttempts

\* C4: in both polls, when the query first answers a non-empty list on
\* attempt k, the poll ends after exactly k queries (none is issued after
\* it), and the handles used afterwards are those of that k-th answer.
C4_MatchedAfterExactlyK ==
    /\ dialogMatch # NoMatch =>
          /\ pc # "dialog_poll"
          /\ dialogQueries = dialogMatch.k
          /\ import_window = dialogMatch.handles[1]
          /\ \A i \in PressesOf({"Import"}) : log[i].h = dialogMatch.handles[1]
    /\ alertMatch # NoMatch =>
          /\ pc # "tempo_poll"
          /\ alertMatch.k <= TempoAttempts
          /\ alertQueries = alertMatch.k
          /\ windows = alertMatch.handles
          /\ alert \in {0, alertMatch.handles[1]}
          /\ \A i \in LookupsOf(CandidateLabels) : lookups[i].h = alertMatch.handles[1]
          /\ \A i \in PressesOf(CandidateLabels) : log[i].h = alertMatch.handles[1]

C4_Witness ==
    /\ pc = "returned"
    /\ dialogMatch.k = 2
    /\ alertMatch.k = 3
    /\ Len(alertMatch.handles) = 2
    /\ PressesOf(CandidateLabels) # {}

\* C5: between the clear step (select-all, delete) and the submit key the
\* injection issues exactly len(abs_path) sendKeys calls, the i-th carrying
\* the i-th character of abs_path.
C5_OneKeyPerCharacter ==
    \A i \in 1..Len(log) :
        log[i] = DeleteKey =>
            /\ Len(log) >= i + typed
            /\ \A k \in 1..typed : log[i + k] = SendKeys(abs_path[k])
            /\ (pc = "type" => Len(log) = i + typed)
            /\ (pc \notin {"clear", "type"} =>
                  /\ typed = Len(abs_path)
                  /\ Len(log) > i + typed
                  /\ log[i + typed + 1] = SubmitKey)

C5_Witness ==
    /\ pc = "confirm"
    /\ Len(abs_path) >= 3
    /\ \E i \in 1..Len(log) : log[i] = DeleteKey /\ log[i + Len(abs_path) + 1] = SubmitKey

\* C6: when the alert has no "Import Tempo" button but has an "OK" button,
\* exactly one button of the alert is pressed, it is "OK", and the
\* resolution ends in success.
C6_SecondCandidatePressed ==
    (/\ pc \in {"finish", "returned"}
     /\ \E i \in 1..Len(lookups) : lookups[i] = Lookup(alert, "Import Tempo", FALSE)
     /\ \E i \in 1..Len(lookups) : lookups[i] = Lookup(alert, "OK", TRUE))
    => /\ Cardinality(PressesOf(CandidateLabels)) = 1
       /\ \A i \in PressesOf(CandidateLabels) : log[i] = Press(alert, "OK")
       /\ result \in {"none", "True"}
       /\ (pc = "returned" => result = "True")

C6_Witness ==
    /\ pc = "returned"
    /\ result = "True"
    /\ lookups[Len(lookups)] = Lookup(alert, "OK", TRUE)
    /\ lookups[Len(lookups) - 1] = Lookup(alert, "Import Tempo", FALSE)

\* C7: when an alert is present and neither "Import Tempo" nor "OK" is found
\* in it, no button of the alert is pressed and the session ends in a
\* failure, not in success.
C7_UnresolvedPromptFails ==
    (/\ Terminal
     /\ alert # 0
     /\ \A c \in CandidateLabels :
           \E i \in 1..Len(lookups) : lookups[i] = Lookup(alert, c, FALSE))
    => /\ PressesOf(CandidateLabels) = {}
       /\ result # "True"

\* C8: when the dialog appeared, the confirm button was pressed and no alert
\* window showed during the whole tempo poll, no fallback candidate is looked
\* up or pressed, the session never fails, and it ends reporting success.
C8_NoAlertIsSuccess ==
    (TempoPollOver /\ alertMatch = NoMatch)
    => /\ PressesOf({"Import"}) # {}
       /\ LookupsOf(CandidateLabels) = {}
       /\ PressesOf(CandidateLabels) = {}
       /\ alert = 0
       /\ pc \in {"tempo_check", "finish", "returned"}
       /\ result \in {"none", "True"}
       /\ (pc = "returned" => result = "True")

C8_Witness ==
    /\ pc = "returned"
    /\ result = "True"
    /\ alertMatch = NoMatch
    /\ alertQueries = TempoAttempts
    /\ PressesOf({"Import"}) # {}

\* C9: when the dialog is open and no "Import" button is found in it, the
\* session ends in a failure (the IndexError of the empty button list leaves
\* the function): no button is pressed, the tempo poll is not started and
\* success is not reported.
C9_ConfirmButtonNotFound ==
    (\E i \in 1..Len(lookups) : lookups[i] = Lookup(import_window, "Import", FALSE))
    => /\ pc = "raised"
       /\ result = "IndexError"
       /\ PressesOf({"Import"} \cup CandidateLabels) = {}
       /\ alertQueries = 0
       /\ attempt = 0

C9_Witness ==
    /\ pc = "raised"
    /\ dialogMatch # NoMatch
    /\ lookups = <<Lookup(import_window, "Import", FALSE)>>
    /\ log[Len(log)] = SubmitKey

\* C10: provisioning is idempotent for a fixed destination name: after every
\* call of createProjectFromTemplate that returns a path, the first or a
\* repeated one, the output directory holds the entry of that name with
\* exactly the template's files (nothing the destination held before
\* survives) and its other entries are as the call found them.
C10_ProvisioningReplaces ==
    lastCall.result = "path" =>
        /\ templates[lastCall.template].exists
        /\ projects = [before EXCEPT ![EntryOf(lastCall.name)] =
                          Dir(templates[lastCall.template].files)]

C10_Witness ==
    /\ lastCall.result = "path"
    /\ okCalls[lastCall.name] >= 2
    /\ before[EntryOf(lastCall.name)].exists
    /\ ~(before[EntryOf(lastCall.name)].files \subseteq templates[lastCall.template].files)
    /\ projects[EntryOf(lastCall.name)] = Dir(templates[lastCall.template].files)

\* the import-dialog loop has been left
DialogPollOver == dialogMatch # NoMatch

\* C11 (as stated): in every poll the first query is made with no leading
\* delay and a sleep only comes between two queries: no sleep before the
\* first query, and k - 1 sleeps in a poll of k queries.
C11_NoLeadingDelay ==
    /\ dialogQueries = 0 => dialogSleeps = 0
    /\ alertQueries = 0 => alertSleeps = 0
    /\ (DialogPollOver /\ dialogQueries < MaxDialogCount) => dialogSleeps = dialogQueries - 1
    /\ TempoPollOver => alertSleeps = alertQueries - 1

\* C11 (amended): in every poll each query, the first included, comes after
\* the sleep of its own iteration: the sleeps made are the queries made, plus
\* one while an iteration has slept and not yet queried, so a poll of k
\* queries holds exactly k sleeps.
C11_SleepBeforeEveryQuery ==
    /\ dialogQueries <= dialogSleeps
    /\ dialogSleeps <= dialogQueries + 1
    /\ alertQueries <= alertSleeps
    /\ alertSleeps <= alertQueries + 1
    /\ (slept /\ pc = "dialog_poll" /\ dialogSleeps < MaxDialogCount) =>
          dialogSleeps = dialogQueries + 1
    /\ (slept /\ pc = "tempo_poll") => alertSleeps = alertQueries + 1
    /\ slept => pc \in {"dialog_poll", "tempo_poll"}
    /\ ~slept => (dialogSleeps = dialogQueries /\ alertSleeps = alertQueries)

C11_Witness ==
    /\ pc = "tempo_check"
    /\ dialogMatch.k = 2
    /\ dialogSleeps = 2
    /\ alertQueries = TempoAttempts
    /\ alertSleeps = TempoAttempts

\* number of times the primitive e was dispatched
Occurrences(e) == Cardinality({i \in 1..Len(log) : log[i] = e})

\* the primitives of the path injection and of the confirmation
IsInjectionPrim(e) ==
    \/ e.op \in {"sendGlobalKeyWithModifiers", "sendGlobalKey", "sendKeys"}
    \/ (e.op = "Press" /\ e.arg = "Import")

\* s is an initial part of t
IsPrefix(s, t) == Len(s) <= Len(t) /\ \A i \in 1..Len(s) : s[i] = t[i]

\* the lifecycle phase the session is in: Idle 0, Activated 1, DialogOpen 2,
\* PathInjected 3, ImportConfirmed 4, TempoPromptChecked 5, Done 6, Failed 7
Phase ==
    CASE pc = "start" -> 0
      [] pc = "dialog_poll" -> 1
      [] pc \in {"reveal", "clear", "type"} -> 2
      [] pc = "confirm" -> 3
      [] pc = "tempo_poll" -> 4
      [] pc \in {"tempo_check", "resolve", "finish"} -> 5
      [] pc = "returned" /\ result = "True" -> 6
      [] OTHER -> 7

\* the call ended in a failure: it returned False or an exception left it
Failed == (pc = "returned" /\ result = "False") \/ pc = "raised"

\* a step of the session has failed: the call failed, or the confirm button
\* was not found, or no fallback candidate was found in the alert
StepFailed ==
    \/ Failed
    \/ \E i \in 1..Len(lookups) : lookups[i].label = "Import" /\ ~lookups[i].found
    \/ \A c \in CandidateLabels :
          \E i \in 1..Len(lookups) : lookups[i].label = c /\ ~lookups[i].found

C15_InjectionOrder ==
    LET sent == SelectSeq(log, IsInjectionPrim)
        expected == <<RevealChord, SelectAllChord, DeleteKey>>
                    \o [k \in 1..Len(abs_path) |-> SendKeys(abs_path[k])]
                    \o <<SubmitKey, Press(import_window, "Import")>>
    IN  /\ IsPrefix(sent, expected)
        /\ sent # <<>> => dialogMatch # NoMatch
        /\ (Phase \in 4..6) => sent = expected

C15_Witness ==
    /\ pc = "tempo_poll"
    /\ Len(abs_path) >= 3
    /\ log[Len(log)] = Press(import_window, "Import")
    /\ log[Len(log) - 1] = SubmitKey
    /\ Len(SelectSeq(log, IsInjectionPrim)) = Len(abs_path) + 5

\* C17: only the query of a poll is repeated: the import-menu press, the
\* reveal chord, the two clear keys, the submit key and the confirm press are
\* each dispatched at most once in a session, and every character position
\* of the path is sent at most once, however many queries the polls make.
C17_ActionsAtMostOnce ==
    /\ \A e \in {MenuPress, RevealChord, SelectAllChord, DeleteKey, SubmitKey} :
          Occurrences(e) <= 1
    /\ Cardinality(PressesOf({"Import"})) <= 1
    /\ Cardinality({i \in 1..Len(log) : log[i].op = "sendKeys" /\ log[i] # SubmitKey}) = typed
    /\ typed <= Len(abs_path)

C17_Witness ==
    /\ pc = "returned"
    /\ result = "True"
    /\ dialogQueries >= 2
    /\ alertQueries >= 2
    /\ typed >= 2
    /\ Occurrences(MenuPress) = 1
    /\ Cardinality(PressesOf({"Import"})) = 1

\* C18: the phase of the session only moves one step forward along Idle,
\* Activated, DialogOpen, PathInjected, ImportConfirmed, TempoPromptChecked,
\* Done, or to Failed; a phase is entered only after the action of the one
\* before it; Failed is never left, and once a step has failed no primitive,
\* query or button lookup is issued any more.
C18_PhasesAdvance ==
    /\ [](/\ Phase \in 1..6 => Occurrences(MenuPress) = 1
          /\ Phase \in 2..6 => dialogMatch # NoMatch
          /\ Phase \in 3..6 => Occurrences(SubmitKey) = 1
          /\ Phase \in 4..6 => PressesOf({"Import"}) # {}
          /\ Phase \in 5..6 => alertQueries >= 1)
    /\ [][/\ Phase' # Phase => (Phase' = Phase + 1 \/ Phase' = 7)
          /\ Phase \in {6, 7} => Phase' = Phase
          /\ StepFailed => /\ log' = log
                           /\ lookups' = lookups
                           /\ dialogQueries' = dialogQueries
                           /\ alertQueries' = alertQueries
                           /\ sleepVars' = sleepVars]_vars

C18_Witness ==
    /\ pc = "raised"
    /\ Phase = 7
    /\ StepFailed
    /\ dialogQueries >= 2
    /\ Occurrences(SubmitKey) = 1

\* C19: no handle is kept across a polling cycle: a button is looked up or
\* pressed only on a handle of the last answer of the most recent poll; the
\* import window is used only before the tempo poll has started, and the
\* alert acted on comes from the final alert query.
C19_NoStaleHandle ==
    [][/\ \A i \in (Len(log) + 1)..Len(log') :
             log'[i].op = "Press" =>
                 IF log'[i].arg = "Import"
                 THEN /\ alertQueries = 0
                      /\ alertSleeps = 0
                      /\ dialogQueries = dialogMatch.k
                      /\ log'[i].h = dialogMatch.handles[1]
                 ELSE /\ alertMatch # NoMatch
                      /\ alertQueries = alertMatch.k
                      /\ log'[i].h = alertMatch.handles[1]
       /\ \A i \in (Len(lookups) + 1)..Len(lookups') :
             IF lookups'[i].label = "Import"
             THEN /\ alertQueries = 0
                  /\ alertSleeps = 0
                  /\ dialogQueries = dialogMatch.k
                  /\ lookups'[i].h = dialogMatch.handles[1]
             ELSE /\ alertMatch # NoMatch
                  /\ alertQueries = alertMatch.k
                  /\ lookups'[i].h = alertMatch.handles[1]]_vars

C19_Witness ==
    /\ pc = "returned"
    /\ PressesOf({"Import"}) # {}
    /\ PressesOf(CandidateLabels) # {}
    /\ alert # import_window
    /\ alertMatch.k >= 2

\* C16 (as stated): the host is activated before the import-menu action is
\* invoked, and both happen before the first query of the dialog poll.
C16_ActivatedBeforeMenu ==
    /\ \A j \in 1..Len(log) :
          log[j] = MenuPress => \E i \in 1..(j - 1) : log[i] = Activate
    /\ (dialogQueries > 0 \/ dialogSleeps > 0) =>
          (Occurrences(Activate) > 0 /\ Occurrences(MenuPress) > 0)

\* C16 (amended): the import-menu action is invoked, right after
\* logic.selectLastTrack(), before the first sleep and query of the dialog
\* poll; logic.logic.activate() is called once, only after the dialog poll
\* has matched, and the reveal chord follows it directly.
C16_MenuThenPollThenActivate ==
    /\ Phase \in 1..6 => (Len(log) >= 2 /\ log[1] = SelectLastTrack /\ log[2] = MenuPress)
    /\ (dialogQueries > 0 \/ dialogSleeps > 0) => Occurrences(MenuPress) = 1
    /\ Phase \in 0..1 => Occurrences(Activate) = 0
    /\ \A i \in 1..Len(log) :
          log[i] = Activate =>
              /\ i = 3
              /\ dialogMatch # NoMatch
              /\ Len(log) > i
              /\ log[i + 1] = RevealChord
    /\ \A i \in 1..Len(log) : log[i] = RevealChord => (i > 1 /\ log[i - 1] = Activate)

C16_Witness ==
    /\ pc = "clear"
    /\ dialogMatch.k = 2
    /\ log = <<SelectLastTrack, MenuPress, Activate, RevealChord>>

\* provisioning failed in this run: createDanceProject found no template, or
\* createProjectFromTemplate returned None or raised
ProvisioningFailed ==
    \/ dret = "False" /\ lastCall = NoCall
    \/ lastCall.result \in {"None", "PermissionError", "FileNotFoundError"}

\* C12 (as stated, its first half): when provisioning failed, the process
\* exits with a non-zero code.
C12_ExitCodeReportsProvisioning ==
    (dpc = "exited" /\ ProvisioningFailed) => exitCode # 0

\* createProjectFromTemplate returned a project path to createDanceProject
ProvisionedPath == lastCall.result = "path"

\* the output directory is as createProjectFromTemplate left it: the entry of
\* the project holds the template's files, every other entry is untouched
AsProvisioned ==
    /\ projects[EntryOf(argv.name)] = Dir(templates[TemplateOf(script)].files)
    /\ \A e \in Entries \ {EntryOf(argv.name)} : projects[e] = before[e]

C20_NoImportForMissingFile ==
    /\ (pc \notin {"idle", "start"} /\ ~Exists(AbsPath(midi_file))) =>
          /\ pc = "returned"
          /\ result = "False"
          /\ log = <<>>
          /\ lookups = <<>>
          /\ dialogQueries = 0
          /\ alertQueries = 0
          /\ dialogSleeps = 0
          /\ alertSleeps = 0
    /\ \A i \in 1..Len(importMidiCalls) : Exists(AbsPath(importMidiCalls[i]))
    /\ script = "improved" => importMidiCalls = <<>>

C20_Witness ==
    /\ script = "improved"
    /\ pc = "returned"
    /\ result = "False"
    /\ midi_file = <<"a">>
    /\ abs_path = <<"/", "w", "/", "a">>
    /\ ~Exists(abs_path)
    /\ log = <<>>
    /\ dpc = "report"

\* createDanceProject has attempted an import: importMidiWithAbsolutePath was
\* called or logic.importMidi was called
ImportAttempted == pc # "idle" \/ importMidiCalls # <<>>

\* createDanceProject is past its template test and the template is missing
TemplateMissing ==
    /\ dpc \notin {"main", "template"}
    /\ argv.argc >= 2
    /\ (argv.argc > 2 => IsInt(argv.tempo))
    /\ ~templates[TemplateOf(script)].exists

\* C21: in every createDanceProject variant logic.open is called at most
\* once, on the provisioned project and only after createProjectFromTemplate
\* returned a path, and an import is attempted only after that open; when the
\* template is missing nothing was provisioned and the output directory is
\* untouched, when createProjectFromTemplate returned None or raised the
\* project entries are as before the call, and in all these cases there is no
\* open and no import attempt and the return value is False or None.
C21_OpenOnceAfterProvisioning ==
    /\ Len(opens) <= 1
    /\ opens # <<>> => (ProvisionedPath /\ opens[1] = EntryOf(argv.name))
    /\ ImportAttempted => (Len(opens) = 1 /\ dpc \notin {"main", "template", "provision", "open", "midi"})
    /\ Len(importMidiCalls) <= 1
    /\ TemplateMissing =>
          /\ lastCall = NoCall
          /\ projects = before
          /\ opens = <<>>
          /\ ~ImportAttempted
          /\ dret = "False"
    /\ lastCall.result = "None" =>
          /\ projects = before
          /\ opens = <<>>
          /\ ~ImportAttempted
          /\ dret = "None"
    /\ ~ProvisionedPath => (opens = <<>> /\ ~ImportAttempted)

C21_Witness ==
    /\ script = "dance_go"
    /\ dpc = "exited"
    /\ lastCall.result = "None"
    /\ dret = "None"
    /\ outDir = "readonly"
    /\ projects[EntryOf(argv.name)] = Dir({"Resources"})
    /\ opens = <<>>
    /\ argv.midi = <<"/", "a">>
    /\ Exists(argv.midi)

====
